---- MODULE Spec2Model ----
(***************************************************************************)
(* A model of the Fanout edge gateway of src/src/main.rs: the text-frame   *)
(* codec (ws_text, ws_sub), the test-endpoint handlers, the static-asset   *)
(* handler and the routing dispatcher (main).                              *)
(*                                                                         *)
(* Byte strings (hosts, paths, bodies, backend names, log lines) are       *)
(* sequences of one-character strings, so that prefix, suffix and          *)
(* substring tests are computed byte by byte as the code computes them.    *)
(* Header names and header values, which the code only compares for        *)
(* equality, are plain strings.  An Option is a sequence of length 0       *)
(* (None) or 1 (Some(v)).                                                  *)
(***************************************************************************)
EXTENDS Integers, Sequences, FiniteSets, TLC

VARIABLES
    req,           \* the request delivered to the gateway (Request::from_client)
    pc,            \* "recv": main has not run on req yet; "done": main returned
    events,        \* what the invocation of main did, in order: log lines, responses sent, handoffs
    result,        \* what main returned: "none" (not yet), "Ok", "Err"
    held,          \* Option: the request Fanout took over after a successful handoff to self_<host>
    redeliveries,  \* how often Fanout re-delivered the request to this service
    selfHandoffs,  \* handoffs to self_<host> attempted for the client's request so far
    msg,           \* codec: the input string of ws_text / ws_sub
    frame,         \* codec: the bytes returned
    op             \* codec: "none", "ws_text" or "ws_sub"

vars == <<req, pc, events, result, held, redeliveries, selfHandoffs, msg, frame, op>>

---------------------------------------------------------------------------
(* Bounds of the model *)

\* the longest payload handed to ws_text (beyond 255, where a third hex digit appears)
MaxPayloadLen == 257
\* a request body is a concatenation of at most this many BodyTokens
MaxBodyTokens == 4
\* Fanout re-delivers a request at most this often
MaxRedeliver == 2

---------------------------------------------------------------------------
(* Byte-string helpers (std: str::starts_with, str::ends_with, slice::windows) *)

None == <<>>
Some(v) == <<v>>

StartsWith(s, p) == Len(p) <= Len(s) /\ SubSeq(s, 1, Len(p)) = p

EndsWith(s, p) == Len(p) <= Len(s) /\ SubSeq(s, Len(s) - Len(p) + 1, Len(s)) = p

\* s.windows(p.len()).any(|w| w == p)
Contains(s, p) == \E i \in 1..(Len(s) - Len(p) + 1) : SubSeq(s, i, i + Len(p) - 1) = p

Repeat(b, n) == [i \in 1..n |-> b]

CRLF == <<"\r", "\n">>

---------------------------------------------------------------------------
(* Literals of the source *)

ManagedSuffix == <<".","f","a","n","o","u","t","c","d","n",".","c","o","m">>
TestStaticPrefix == <<"/","t","e","s","t","/","s","t","a","t","i","c","/">>
BayeuxStaticPrefix == <<"/","b","a","y","e","u","x","/","s","t","a","t","i","c","/">>
TestPath == <<"/","t","e","s","t">>
TestPrefix == <<"/","t","e","s","t","/">>
BayeuxPath == <<"/","b","a","y","e","u","x">>
BayeuxPrefix == <<"/","b","a","y","e","u","x","/">>
SsePath == <<"/","t","e","s","t","/","s","s","e">>
WsPath == <<"/","t","e","s","t","/","w","s">>
SelfPrefix == <<"s","e","l","f","_">>
BayeuxHandler == <<"b","a","y","e","u","x","-","h","a","n","d","l","e","r">>
HttpsPrefix == <<"h","t","t","p","s","_","b","a","c","k","e","n","d","_">>
HttpPrefix == <<"h","t","t","p","_","b","a","c","k","e","n","d","_">>
TestChannel == <<"t","e","s","t">>

HelloBody == <<"H","e","l","l","o"," ","f","r","o","m"," ","t","h","e"," ","F","a","n","o","u","t"," ","t","e","s","t"," ","h","a","n","d","l","e","r","!","\n">>
NotWsBody == <<"N","o","t"," ","a"," ","W","e","b","S","o","c","k","e","t","-","o","v","e","r","-","H","T","T","P"," ","r","e","q","u","e","s","t",".","\n">>
NotFoundJson == <<"{","\"","e","r","r","o","r","\"",":"," ","\"","n","o","t"," ","f","o","u","n","d","\"","}","\n">>
UnknownHostBody == <<"U","n","k","n","o","w","n"," ","h","o","s","t","\n">>

OpenLine == <<"O","P","E","N","\r","\n">>
CloseLine == <<"C","L","O","S","E","\r","\n">>
CloseToken == <<"C","L","O","S","E">>
TextTag == <<"T","E","X","T"," ">>
SubPrefix == <<"c",":","{","\"","t","y","p","e","\"",":","\"","s","u","b","s","c","r","i","b","e","\"",",","\"","c","h","a","n","n","e","l","\"",":","\"">>
SubSuffix == <<"\"","}">>
KeepAliveCmd == <<"c",":","{","\"","t","y","p","e","\"",":","\"","k","e","e","p","-","a","l","i","v","e","\"",",","\"","m","e","s","s","a","g","e","-","t","y","p","e","\"",":","\"","p","i","n","g","\"",",","\"","c","o","n","t","e","n","t","\"",":","\"","\"",",","\"","t","i","m","e","o","u","t","\"",":","2","0","}">>

WsEventsType == "application/websocket-events"
GripExtension == "grip; message-prefix=\"\""
SseKeepAlive == ":\\n\\n; format=cstring; timeout=20"

VersionLogPrefix == <<"F","A","S","T","L","Y","_","S","E","R","V","I","C","E","_","V","E","R","S","I","O","N",":"," ">>
HandoffLogPrefix == <<"h","a","n","d","o","f","f"," ","t","o"," ","b","a","c","k","e","n","d"," ">>
\* "Some error happened: {e:?}": the Debug text of the error is opaque, one token
ErrorLogLine == <<"S","o","m","e"," ","e","r","r","o","r"," ","h","a","p","p","e","n","e","d",":"," ","<e>">>

\* vec![b' '; 2048]
PaddingLen == 2048

---------------------------------------------------------------------------
(* Protocol codec: ws_text, ws_sub *)

HexDigits == <<"0","1","2","3","4","5","6","7","8","9","a","b","c","d","e","f">>

\* {:x}: lowercase hexadecimal, as many digits as the value needs
RECURSIVE LowerHex(_)
LowerHex(n) == IF n < 16 THEN <<HexDigits[n + 1]>>
               ELSE LowerHex(n \div 16) \o <<HexDigits[(n % 16) + 1]>>

\* {:02x}: lowercase hexadecimal, zero-padded on the left to a width of 2
Hex02(n) == LET h == LowerHex(n) IN IF Len(h) < 2 THEN <<"0">> \o h ELSE h

\* mutant: the length written is that of the payload with its line ending
ws_text_CountsLineEnd(m) == TextTag \o Hex02(Len(m) + Len(CRLF)) \o CRLF \o m \o CRLF

ws_text(m) == TextTag \o Hex02(Len(m)) \o CRLF \o m \o CRLF

\* mutant: the command marker c: is left out of the payload
ws_sub_NoMarker(ch) == ws_text(SubSeq(SubPrefix, 3, Len(SubPrefix)) \o ch \o SubSuffix)

ws_sub(ch) == ws_text(SubPrefix \o ch \o SubSuffix)

---------------------------------------------------------------------------
(* Requests and responses (fastly::Request, fastly::Response) *)

NoHeaders == [h \in {} |-> ""]

\* Request::get_header_str: the value of the header, None when it is absent
get_header_str(r, name) == IF name \in DOMAIN r.headers THEN Some(r.headers[name]) ELSE None

\* set_header / with_header: replaces the header's value
set_header(x, name, value) == [x EXCEPT !.headers = (name :> value) @@ x.headers]

\* Response::from_status: no headers, empty body
from_status(status) == [status |-> status, headers |-> NoHeaders, body |-> <<>>]

with_body(resp, body) == [resp EXCEPT !.body = body]

grip_response(ctype, ghold, chan) ==
    with_body(set_header(set_header(set_header(from_status(200),
        "Content-Type", ctype), "Grip-Hold", ghold), "Grip-Channel", chan), <<>>)

---------------------------------------------------------------------------
(* Test-endpoint handler: handle_test_ws, handle_test *)

\* mutant: the keep-alive command is written before the subscribe command
OpenPart_KeepAliveFirst(req_body, chan) ==
    IF StartsWith(req_body, OpenLine)
    THEN OpenLine \o ws_text(KeepAliveCmd) \o ws_sub(chan)
    ELSE <<>>

\* lines 45-52: what an OPEN request adds to the response body
OpenPart(req_body, chan) ==
    IF StartsWith(req_body, OpenLine)
    THEN OpenLine \o ws_sub(chan) \o ws_text(KeepAliveCmd)
    ELSE <<>>

\* mutant: CLOSE is recognised only as a line of its own
ClosePart_LineAnchored(req_body) ==
    IF StartsWith(req_body, CloseLine) \/ Contains(req_body, CRLF \o CloseLine)
    THEN CloseLine ELSE <<>>

\* lines 54-57: what a CLOSE anywhere in the request body adds to the response body
ClosePart(req_body) ==
    IF Contains(req_body, CloseToken) THEN CloseLine ELSE <<>>

handle_test_ws(r, chan) ==
    IF get_header_str(r, "Content-Type") # Some(WsEventsType)
    THEN with_body(from_status(400), NotWsBody)
    ELSE LET resp0 == set_header(from_status(200), "Content-Type", WsEventsType)
             resp1 == IF StartsWith(r.body, OpenLine)
                      THEN set_header(resp0, "Sec-WebSocket-Extensions", GripExtension)
                      ELSE resp0
         IN  with_body(resp1, OpenPart(r.body, chan) \o ClosePart(r.body))

SsePadding == <<":">> \o Repeat(" ", PaddingLen) \o <<"\n", "\n">>

handle_test(r, chan) ==
    CASE r.path = TestPath \/ r.path = TestPrefix ->
           with_body(from_status(200), HelloBody)
      [] r.path = SsePath ->
           with_body(set_header(grip_response("text/event-stream", "stream", chan),
                                "Grip-Keep-Alive", SseKeepAlive), SsePadding)
      [] r.path = WsPath -> handle_test_ws(r, chan)
      [] OTHER -> with_body(from_status(404), NotFoundJson)

---------------------------------------------------------------------------
(* Static assets: handle_static *)

StaticNames == {
    <<"e","v","e","n","t","s","o","u","r","c","e",".","m","i","n",".","j","s">>,
    <<"f","a","y","e","-","b","r","o","w","s","e","r","-","1",".","1",".","2","-","f","a","n","o","u","t","1","-","m","i","n",".","j","s">>,
    <<"f","a","y","e","-","b","r","o","w","s","e","r","-","1",".","1",".","2","-","f","a","n","o","u","t","1","-","m","i","n",".","j","s",".","m","a","p">>,
    <<"f","a","y","e","-","b","r","o","w","s","e","r","-","1",".","1",".","2","-","f","a","n","o","u","t","1",".","j","s">>,
    <<"f","a","y","e","-","b","r","o","w","s","e","r","-","m","i","n",".","j","s">>,
    <<"f","a","y","e","-","b","r","o","w","s","e","r","-","m","i","n",".","j","s",".","m","a","p">>,
    <<"f","a","y","e","-","b","r","o","w","s","e","r",".","j","s">>,
    <<"j","s","o","n","2",".","j","s">>,
    <<"r","e","c","o","n","n","e","c","t","i","n","g","-","e","v","e","n","t","s","o","u","r","c","e",".","j","s">>
}

\* the table files: name -> include_str!("../static/<name>"), the contents being opaque
files == [n \in StaticNames |-> <<"include_str!(../static/">> \o n \o <<")">>]

\* path_segments().unwrap().last().unwrap(): the path is split at every '/', and the
\* last piece is what follows the last '/' (empty when the path ends with one)
LastSegment(path) ==
    LET slashes == {i \in 1..Len(path) : path[i] = "/"}
        last == IF slashes = {} THEN 0
                ELSE CHOOSE i \in slashes : \A j \in slashes : j <= i
    IN  SubSeq(path, last + 1, Len(path))

handle_static(r) ==
    LET fname == LastSegment(r.path) IN
    IF fname \notin DOMAIN files THEN from_status(404)
    ELSE LET ctype == IF EndsWith(fname, <<".","j","s">>) THEN "application/javascript"
                      ELSE IF EndsWith(fname, <<".","m","a","p">>) THEN "application/octet-stream"
                      ELSE "text/plain"
         IN  with_body(set_header(from_status(200), "Content-Type", ctype), files[fname])

---------------------------------------------------------------------------
(* Routing dispatcher: main *)

LogEv(line) == [kind |-> "log", line |-> line]

\* a response sent to the client: by which handler, and with which channel argument
SendEv(by, chan, resp) == [kind |-> "send", by |-> by, chan |-> chan, resp |-> resp]

\* req.handoff_fanout(backend), which returned Ok (ok) or Err
HandoffEv(backend, ok) == [kind |-> "handoff", backend |-> backend, ok |-> ok]

\* scheme().eq_ignore_ascii_case("https"); a parsed url holds its scheme in lower case
is_tls(r) == r.scheme = "https"

\* line 168
Managed(host) == EndsWith(host, ManagedSuffix)

\* line 169
IsStaticPath(path) == StartsWith(path, TestStaticPrefix) \/ StartsWith(path, BayeuxStaticPrefix)

\* line 174
IsTestPath(path) == path = TestPath \/ StartsWith(path, TestPrefix)

\* line 191
IsBayeuxPath(path) == path = BayeuxPath \/ StartsWith(path, BayeuxPrefix)

\* mutant: an empty Grip-Sig counts as no Grip-Sig
FromFanout_NonEmpty(r) == get_header_str(r, "Grip-Sig") \notin {None, Some("")}

\* mutant: the presence test reads another header than the one Fanout adds
FromFanout_WrongHeader(r) == get_header_str(r, "Grip-Signature") # None

\* line 175: the request is from Fanout when it carries a Grip-Sig header
FromFanout(r) == get_header_str(r, "Grip-Sig") # None

\* lines 181-185 and 206-210: println!, handoff_fanout, and on Err println! and return Err
LoggedHandoff(r, backend, ok) ==
    [events |-> <<LogEv(HandoffLogPrefix \o backend), HandoffEv(backend, ok)>>
                \o (IF ok THEN <<>> ELSE <<LogEv(ErrorLogLine)>>),
     result |-> IF ok THEN "Ok" ELSE "Err",
     fwd    |-> IF ok THEN Some(r) ELSE None]

\* lines 170-171
StaticBranch(r) ==
    [events |-> <<SendEv("handle_static", None, handle_static(r))>>,
     result |-> "Ok", fwd |-> None]

\* mutant: the return of line 188 is missing, so main goes on to the backend handoff
TestBranch_NoReturn(r, host, ok) ==
    LET first == IF get_header_str(r, "Grip-Sig") # None
                 THEN [events |-> <<SendEv("handle_test", Some(TestChannel),
                                           handle_test(r, TestChannel))>>,
                       result |-> "Ok", fwd |-> None]
                 ELSE [events |-> <<LogEv(HandoffLogPrefix \o SelfPrefix \o host),
                                    HandoffEv(SelfPrefix \o host, ok)>>
                                  \o (IF ok THEN <<>> ELSE <<LogEv(ErrorLogLine)>>),
                       result |-> IF ok THEN "Ok" ELSE "Err",
                       fwd |-> IF ok THEN Some(r) ELSE None]
        backend == (IF r.scheme = "https" THEN HttpsPrefix ELSE HttpPrefix) \o host
    IN  IF first.result = "Err" THEN first
        ELSE [events |-> first.events \o <<LogEv(HandoffLogPrefix \o backend),
                                            HandoffEv(backend, ok)>>
                         \o (IF ok THEN <<>> ELSE <<LogEv(ErrorLogLine)>>),
              result |-> IF ok THEN "Ok" ELSE "Err",
              fwd |-> IF ok THEN Some(r) ELSE None]

\* lines 175-188
TestBranch(r, host, ok) ==
    IF FromFanout(r)
    THEN [events |-> <<SendEv("handle_test", Some(TestChannel), handle_test(r, TestChannel))>>,
          result |-> "Ok", fwd |-> None]
    ELSE LoggedHandoff(r, SelfPrefix \o host, ok)

\* line 192: return Ok(req.handoff_fanout("bayeux-handler")?)
BayeuxBranch(r, ok) ==
    [events |-> <<HandoffEv(BayeuxHandler, ok)>>,
     result |-> IF ok THEN "Ok" ELSE "Err",
     fwd    |-> IF ok THEN Some(r) ELSE None]

\* mutant: the backend name carries the path
BackendName_WithPath(r, host) ==
    (IF r.scheme = "https" THEN HttpsPrefix ELSE HttpPrefix) \o host \o r.path

\* lines 196-204
BackendName(r, host) == (IF is_tls(r) THEN HttpsPrefix ELSE HttpPrefix) \o host

\* lines 196-212
BackendBranch(r, host, ok) == LoggedHandoff(r, BackendName(r, host), ok)

\* mutant: the /test rule is tried before the static-asset rule
Route_TestBeforeStatic(r, host, ok) ==
    IF Managed(host) /\ IsTestPath(r.path) THEN TestBranch(r, host, ok)
    ELSE IF Managed(host) /\ IsStaticPath(r.path) THEN StaticBranch(r)
    ELSE IF Managed(host) /\ IsBayeuxPath(r.path) THEN BayeuxBranch(r, ok)
    ELSE BackendBranch(r, host, ok)

\* lines 168-212, run on the request with its forwarding headers set
Route(r, host, ok) ==
    IF Managed(host) /\ IsStaticPath(r.path) THEN StaticBranch(r)
    ELSE IF Managed(host) /\ IsTestPath(r.path) THEN TestBranch(r, host, ok)
    ELSE IF Managed(host) /\ IsBayeuxPath(r.path) THEN BayeuxBranch(r, ok)
    ELSE BackendBranch(r, host, ok)

\* lines 160-166: X-Forwarded-For from the client address, X-Forwarded-Proto when TLS
Forwarded(r) ==
    LET r1 == IF r.clientIp # None THEN set_header(r, "X-Forwarded-For", r.clientIp[1]) ELSE r
    IN  IF is_tls(r1) THEN set_header(r1, "X-Forwarded-Proto", "https") ELSE r1

\* main on request r, where a handoff, if one is made, returns Ok (ok) or Err
main(r, ok) ==
    LET r0 == [r EXCEPT !.pass = TRUE]
        versionLog == <<LogEv(VersionLogPrefix \o r.serviceVersion)>>
    IN  IF r0.host = None
        THEN [events |-> versionLog \o
                         <<SendEv("main", None, with_body(from_status(404), UnknownHostBody))>>,
              result |-> "Ok", fwd |-> None]
        ELSE LET out == Route(Forwarded(r0), r0.host[1], ok)
             IN  [out EXCEPT !.events = versionLog \o out.events]

---------------------------------------------------------------------------
(* Inputs *)

Hosts == { None,
           Some(<<"a",".","f","a","n","o","u","t","c","d","n",".","c","o","m">>),
           Some(<<"f","a","n","o","u","t","c","d","n",".","c","o","m">>),
           Some(<<"e","x","a","m","p","l","e",".","c","o","m">>) }

Paths == { <<"/">>, TestPath, TestPrefix, SsePath, WsPath,
           <<"/","t","e","s","t","/","n","o","p","e">>,
           <<"/","t","e","s","t","i","n","g">>,
           <<"/","t","e","s","t","/","s","t","a","t","i","c">>,
           TestStaticPrefix,
           <<"/","t","e","s","t","/","s","t","a","t","i","c","/","j","s","o","n","2",".","j","s">>,
           <<"/","t","e","s","t","/","s","t","a","t","i","c","/","a","/","j","s","o","n","2",".","j","s">>,
           <<"/","t","e","s","t","/","s","t","a","t","i","c","/","n","o","p","e",".","j","s">>,
           <<"/","b","a","y","e","u","x","/","s","t","a","t","i","c","/","f","a","y","e","-","b","r","o","w","s","e","r","-","m","i","n",".","j","s",".","m","a","p">>,
           BayeuxPath,
           <<"/","b","a","y","e","u","x","/","x">>,
           <<"/","b","a","y","e","u","x","x">>,
           <<"/","s","t","a","t","i","c","/","j","s","o","n","2",".","j","s">> }

Schemes == {"http", "https"}

\* Option values of the Grip-Sig and Content-Type request headers
GripSigs == {None, Some(""), Some("sig")}
ContentTypes == {None, Some(WsEventsType), Some("text/plain")}

ClientIps == {None, Some("192.0.2.7")}
ServiceVersions == {<<>>, <<"4","2">>}

OptHeader(name, opt) == IF opt = None THEN NoHeaders ELSE name :> opt[1]

Request(host, path, scheme, sig, ctype, body, ip, version) ==
    [host |-> host, path |-> path, scheme |-> scheme,
     headers |-> OptHeader("Grip-Sig", sig) @@ OptHeader("Content-Type", ctype),
     body |-> body, clientIp |-> ip, serviceVersion |-> version, pass |-> FALSE]

\* request bodies: every concatenation of at most n of these tokens
BodyTokens == { OpenLine, <<"O","P","E","N">>, <<"C","L","O","S">>, <<"E">>, CRLF, <<"x">> }

RECURSIVE BodiesUpTo(_)
BodiesUpTo(n) ==
    IF n = 0 THEN {<<>>}
    ELSE LET prev == BodiesUpTo(n - 1) IN prev \cup {b \o t : b \in prev, t \in BodyTokens}

SmallBodies == { <<>>, OpenLine, OpenLine \o CloseLine }

Channels == { TestChannel, <<>>, <<"a">>, <<"r","o","o","m","-","1">> }

PayloadBytes == {"a", "\r", "\"", "\\xc3"}

Payloads == { Repeat(b, n) : b \in PayloadBytes, n \in 0..MaxPayloadLen }
            \cup Channels
            \cup { KeepAliveCmd, CRLF \o TextTag, <<"\\xc3", "\\xa9">> }

---------------------------------------------------------------------------
(* The gateway and Fanout *)

IsSelfBackend(backend) == StartsWith(backend, SelfPrefix)

\* the handoffs of an invocation that went to self_<host>
SelfHandoffEvents(evs) ==
    {i \in 1..Len(evs) : evs[i].kind = "handoff" /\ IsSelfBackend(evs[i].backend)}

Idle == Request(None, <<>>, "http", None, None, <<>>, None, <<>>)

\* the header maps a client can send: Grip-Sig and Content-Type, each absent or present
ClientHeaders ==
    { OptHeader("Grip-Sig", g) @@ OptHeader("Content-Type", c) :
        g \in GripSigs, c \in ContentTypes }

ClientRequests ==
    [host : Hosts, path : Paths, scheme : Schemes, headers : ClientHeaders,
     body : SmallBodies, clientIp : ClientIps, serviceVersion : ServiceVersions,
     pass : {FALSE}]

\* requests Fanout relays to the framing test sub-route, with every body of the bound
WsRequests ==
    { Request(Some(<<"a">> \o ManagedSuffix), WsPath, s, Some("sig"), c, b, None, <<>>) :
        s \in Schemes, c \in ContentTypes, b \in BodiesUpTo(MaxBodyTokens) }

Init ==
    /\ req = Idle
    /\ pc = "start"
    /\ events = <<>>
    /\ result = "none"
    /\ held = None
    /\ redeliveries = 0
    /\ selfHandoffs = 0
    /\ msg = <<>>
    /\ frame = <<>>
    /\ op = "none"

\* the service is started on a client's request (Request::from_client)
Receive ==
    /\ pc = "start"
    /\ req' \in ClientRequests
    /\ pc' = "recv"
    /\ UNCHANGED <<events, result, held, redeliveries, selfHandoffs, msg, frame, op>>

\* one invocation of main on the delivered request, run to completion
Main ==
    /\ pc = "recv"
    /\ \E ok \in BOOLEAN : \E out \in {main(req, ok)} :
           /\ events' = out.events
           /\ result' = out.result
           /\ held' = IF \E i \in SelfHandoffEvents(out.events) : out.events[i].ok
                      THEN out.fwd ELSE None
           /\ selfHandoffs' = selfHandoffs + Cardinality(SelfHandoffEvents(out.events))
    /\ pc' = "done"
    /\ UNCHANGED <<req, redeliveries, msg, frame, op>>

\* Fanout forwards the request it took over to the backend self_<host>, which is this
\* same service, with a Grip-Sig header added
Redeliver ==
    /\ pc = "done"
    /\ held # None
    /\ redeliveries < MaxRedeliver
    /\ req' = [set_header(held[1], "Grip-Sig", "sig") EXCEPT !.pass = FALSE]
    /\ pc' = "recv"
    /\ events' = <<>>
    /\ result' = "none"
    /\ held' = None
    /\ redeliveries' = redeliveries + 1
    /\ UNCHANGED <<selfHandoffs, msg, frame, op>>

Next == Receive \/ Main \/ Redeliver

Spec == Init /\ [][Next]_vars

\* main runs to completion, and Fanout forwards every request it took over
FairSpec == Spec /\ WF_vars(Receive) /\ WF_vars(Main) /\ WF_vars(Redeliver)

InitWs ==
    /\ req \in WsRequests
    /\ pc = "recv"
    /\ events = <<>>
    /\ result = "none"
    /\ held = None
    /\ redeliveries = 0
    /\ selfHandoffs = 0
    /\ msg = <<>>
    /\ frame = <<>>
    /\ op = "none"

NextWs == Main

SpecWs == InitWs /\ [][NextWs]_vars

---------------------------------------------------------------------------
(* The codec applied to bounded inputs *)

InitCodec ==
    /\ msg \in Payloads
    /\ frame = <<>>
    /\ op = "none"
    /\ req = Idle
    /\ pc = "idle"
    /\ events = <<>>
    /\ result = "none"
    /\ held = None
    /\ redeliveries = 0
    /\ selfHandoffs = 0

WsText ==
    /\ op = "none"
    /\ frame' = ws_text(msg)
    /\ op' = "ws_text"
    /\ UNCHANGED <<msg, req, pc, events, result, held, redeliveries, selfHandoffs>>

WsSub ==
    /\ op = "none"
    /\ msg \in Channels
    /\ frame' = ws_sub(msg)
    /\ op' = "ws_sub"
    /\ UNCHANGED <<msg, req, pc, events, result, held, redeliveries, selfHandoffs>>

NextCodec == WsText \/ WsSub

SpecCodec == InitCodec /\ [][NextCodec]_vars

---------------------------------------------------------------------------
(* Reading a frame back: used by the properties only *)

HexDigitValue ==
    [c \in {"0","1","2","3","4","5","6","7","8","9","a","b","c","d","e","f"} |->
        CASE c = "0" -> 0 [] c = "1" -> 1 [] c = "2" -> 2 [] c = "3" -> 3
          [] c = "4" -> 4 [] c = "5" -> 5 [] c = "6" -> 6 [] c = "7" -> 7
          [] c = "8" -> 8 [] c = "9" -> 9 [] c = "a" -> 10 [] c = "b" -> 11
          [] c = "c" -> 12 [] c = "d" -> 13 [] c = "e" -> 14 [] c = "f" -> 15]

IsLowerHex(d) == Len(d) >= 1 /\ \A i \in 1..Len(d) : d[i] \in DOMAIN HexDigitValue

RECURSIVE HexValue(_)
HexValue(d) ==
    IF d = <<>> THEN 0
    ELSE 16 * HexValue(SubSeq(d, 1, Len(d) - 1)) + HexDigitValue[d[Len(d)]]

\* the position of the first carriage return of f, 0 when it has none
FirstCR(f) ==
    IF \E i \in 1..Len(f) : f[i] = "\r"
    THEN CHOOSE i \in 1..Len(f) : f[i] = "\r" /\ \A j \in 1..(i - 1) : f[j] # "\r"
    ELSE 0

\* the length field of a TEXT frame: what stands between "TEXT " and the first line ending
FrameHex(f) == SubSeq(f, Len(TextTag) + 1, FirstCR(f) - 1)

\* f is "TEXT " + d + CRLF + payload + CRLF, d being lowercase hex digits that give Len(payload)
IsTextFrameOf(f, payload) ==
    /\ StartsWith(f, TextTag)
    /\ FirstCR(f) > Len(TextTag)
    /\ IsLowerHex(FrameHex(f))
    /\ HexValue(FrameHex(f)) = Len(payload)
    /\ f = TextTag \o FrameHex(f) \o CRLF \o payload \o CRLF

---------------------------------------------------------------------------
(* Properties of the codec, under SpecCodec *)

\* C4 (as amended): for every payload P, ws_text returns "TEXT " + H + CRLF + P + CRLF,
\* P copied unescaped, where H is the byte length of P in lowercase hexadecimal,
\* zero-padded to two digits: one leading zero for a payload shorter than 16 bytes,
\* and no leading zero once the length needs two digits or more.
C4_TextFrameTwoDigitMinimum ==
    op = "ws_text" =>
        /\ IsTextFrameOf(frame, msg)
        /\ Len(FrameHex(frame)) >= 2
        /\ (Len(FrameHex(frame)) > 2 => FrameHex(frame)[1] # "0")
        /\ (Len(msg) < 16 => FrameHex(frame)[1] = "0")

\* C4 (as claimed): the same, with H having no digit beyond those the value needs, so
\* that a payload shorter than 16 bytes gets a one-digit H.
C4_TextFrameNoPadding ==
    op = "ws_text" =>
        /\ IsTextFrameOf(frame, msg)
        /\ (Len(FrameHex(frame)) > 1 => FrameHex(frame)[1] # "0")
        /\ (Len(msg) < 16 => Len(FrameHex(frame)) = 1)

\* a payload of 10 bytes, shorter than 16, has been encoded
C4_Witness ==
    op = "ws_text" /\ Len(msg) = 10 /\ FrameHex(frame) = <<"0", "a">>

Sub27Frame == <<"T","E","X","T"," ","2","7","\r","\n","c",":","{","\"","t","y","p","e","\"",":","\"","s","u","b","s","c","r","i","b","e","\"",",","\"","c","h","a","n","n","e","l","\"",":","\"","t","e","s","t","\"","}","\r","\n">>

Sub28Frame == <<"T","E","X","T"," ","2","8","\r","\n","c",":","{","\"","t","y","p","e","\"",":","\"","s","u","b","s","c","r","i","b","e","\"",",","\"","c","h","a","n","n","e","l","\"",":","\"","t","e","s","t","\"","}","\r","\n">>

SubscribeTestPayload == SubSeq(Sub27Frame, 10, Len(Sub27Frame) - 2)

\* C5 (as amended): ws_sub("test") returns exactly
\* TEXT 27\r\nc:{"type":"subscribe","channel":"test"}\r\n: the length field is the hex
\* string "27" (39), the byte count of the payload c:{"type":"subscribe","channel":"test"}.
C5_SubscribeTestIsFrame27 ==
    (op = "ws_sub" /\ msg = TestChannel) =>
        /\ frame = Sub27Frame
        /\ FrameHex(frame) = <<"2", "7">>
        /\ HexValue(FrameHex(frame)) = Len(SubscribeTestPayload)

\* C5 (as claimed): ws_sub("test") returns exactly
\* TEXT 28\r\nc:{"type":"subscribe","channel":"test"}\r\n, the length field being "28".
C5_SubscribeTestIsFrame28 ==
    (op = "ws_sub" /\ msg = TestChannel) =>
        /\ frame = Sub28Frame
        /\ FrameHex(frame) = <<"2", "8">>

\* the subscribe command for channel "test" has been encoded
C5_Witness ==
    op = "ws_sub" /\ msg = TestChannel /\ StartsWith(frame, TextTag)

---------------------------------------------------------------------------
(* Reading an invocation: used by the properties only *)

Sends == {i \in 1..Len(events) : events[i].kind = "send"}
Handoffs == {i \in 1..Len(events) : events[i].kind = "handoff"}

HostIsManaged == req.host # None /\ EndsWith(req.host[1], ManagedSuffix)

UnderStatic ==
    StartsWith(req.path, TestStaticPrefix) \/ StartsWith(req.path, BayeuxStaticPrefix)
UnderTest == req.path = TestPath \/ StartsWith(req.path, TestPrefix)
UnderBayeux == req.path = BayeuxPath \/ StartsWith(req.path, BayeuxPrefix)

HasGripSig == "Grip-Sig" \in DOMAIN req.headers

SchemePrefix == IF req.scheme = "https" THEN HttpsPrefix ELSE HttpPrefix

\* exactly one handoff was attempted, to this destination, and no response was sent
OnlyHandoffTo(dest) ==
    /\ Sends = {}
    /\ Cardinality(Handoffs) = 1
    /\ \A i \in Handoffs : events[i].backend = dest

\* exactly one response was sent, by this handler, and no handoff was attempted
OnlyAnswerBy(handler) ==
    /\ Handoffs = {}
    /\ Cardinality(Sends) = 1
    /\ \A i \in Sends : events[i].by = handler

TheResponse == events[CHOOSE i \in Sends : TRUE].resp

\* seg is the last segment of the request path: the path is some prefix, a '/', and seg,
\* and seg holds no '/'
IsPathTail(seg) ==
    /\ Len(seg) < Len(req.path)
    /\ req.path[Len(req.path) - Len(seg)] = "/"
    /\ seg = SubSeq(req.path, Len(req.path) - Len(seg) + 1, Len(req.path))
    /\ \A i \in 1..Len(seg) : seg[i] # "/"

---------------------------------------------------------------------------
(* Properties of the dispatcher, under Spec *)

\* C1: for a managed host and a path that is /test or under /test/ (and not under a
\* static-asset prefix): with a Grip-Sig header, whatever its value, the request is
\* answered by handle_test with channel "test" and nothing is handed off; without one,
\* no response is sent and the request is handed off to "self_" + host.
C1_TestRouteByGripSig ==
    (pc = "done" /\ HostIsManaged /\ UnderTest /\ ~UnderStatic) =>
        IF HasGripSig
        THEN /\ OnlyAnswerBy("handle_test")
             /\ \A i \in Sends : events[i].chan = Some(TestChannel)
        ELSE OnlyHandoffTo(SelfPrefix \o req.host[1])

\* a /test request with an empty Grip-Sig value has been answered by handle_test
C1_Witness ==
    /\ pc = "done" /\ HostIsManaged /\ UnderTest /\ ~UnderStatic
    /\ HasGripSig /\ req.headers["Grip-Sig"] = ""
    /\ \E i \in Sends : events[i].by = "handle_test"

\* C2: a request no managed-host path rule matches (the host is not managed, or it is
\* and the path is under none of the static, /test and /bayeux prefixes) is handed off
\* to exactly "https_backend_" + host when its scheme is https, and to
\* "http_backend_" + host otherwise: the path is no part of the destination.
C2_BackendFromSchemeAndHost ==
    (pc = "done" /\ req.host # None
        /\ ~(HostIsManaged /\ (UnderStatic \/ UnderTest \/ UnderBayeux))) =>
        OnlyHandoffTo(SchemePrefix \o req.host[1])

\* a managed host's request to /testing over https went to the https backend of the host
C2_Witness ==
    /\ pc = "done" /\ HostIsManaged /\ req.scheme = "https"
    /\ req.path = <<"/","t","e","s","t","i","n","g">>
    /\ \E i \in Handoffs : events[i].backend = HttpsPrefix \o req.host[1]

\* C3: every handoff of main (to "self_" + host, to "bayeux-handler", to the
\* http(s)_backend_ name) is preceded by the log line naming its destination, and a
\* failed handoff is followed by the error log line and returned as main's error.
C3_EveryHandoffLogged ==
    pc = "done" =>
        \A i \in Handoffs :
            /\ i > 1
            /\ events[i - 1] = LogEv(HandoffLogPrefix \o events[i].backend)
            /\ (~events[i].ok =>
                    /\ i < Len(events)
                    /\ events[i + 1] = LogEv(ErrorLogLine)
                    /\ result = "Err")

\* C8: on a managed host a path under /test/static/ or /bayeux/static/ is answered by
\* handle_static from the last path segment (200 with the asset when the table has the
\* name, 404 with an empty body otherwise), never by handle_test and never handed off,
\* with or without Grip-Sig; on another host the same path goes to the synthesized backend.
C8_StaticRuleFirst ==
    (pc = "done" /\ req.host # None /\ UnderStatic) =>
        IF HostIsManaged
        THEN /\ OnlyAnswerBy("handle_static")
             /\ IF \E n \in StaticNames : IsPathTail(n)
                THEN /\ TheResponse.status = 200
                     /\ \A n \in StaticNames : IsPathTail(n) => TheResponse.body = files[n]
                ELSE TheResponse.status = 404 /\ TheResponse.body = <<>>
        ELSE OnlyHandoffTo(SchemePrefix \o req.host[1])

\* a request with Grip-Sig for /test/static/json2.js was answered with the asset
C8_Witness ==
    /\ pc = "done" /\ HostIsManaged /\ HasGripSig
    /\ req.path = TestStaticPrefix \o <<"j","s","o","n","2",".","j","s">>
    /\ \E i \in Sends : events[i].by = "handle_static" /\ events[i].resp.status = 200

\* C9: every invocation of main ends with exactly one response sent or exactly one
\* handoff attempted, never both and never neither: an unknown host gives one 404
\* response and no handoff, and a failed handoff gives an error return and no response.
C9_OneTerminalOutcome ==
    pc = "done" =>
        /\ Cardinality(Sends) + Cardinality(Handoffs) = 1
        /\ (req.host = None =>
                Handoffs = {} /\ \A i \in Sends : events[i].resp.status = 404)
        /\ (result = "Err" <=> \E i \in Handoffs : ~events[i].ok)
        /\ (result = "Err" => Sends = {})
        /\ result \in {"Ok", "Err"}

\* a handoff failed: main returned the error and sent nothing
C9_Witness ==
    pc = "done" /\ result = "Err" /\ Sends = {} /\ \E i \in Handoffs : ~events[i].ok

AnsweredByTest == pc = "done" /\ \E i \in Sends : events[i].by = "handle_test"

\* C10: with Fanout re-delivering each request it took over, unchanged but for an added
\* Grip-Sig (FairSpec): a request is handed off to "self_" + host at most once, a
\* re-delivered request is answered by handle_test and never handed off again, and every
\* request Fanout took over is eventually answered by handle_test.
C10_RelayEndsAtTestHandler ==
    /\ [](selfHandoffs <= 1)
    /\ []((redeliveries > 0 /\ pc = "done") => (Handoffs = {} /\ AnsweredByTest))
    /\ ((held # None) ~> AnsweredByTest)
    /\ ((pc = "recv" /\ HostIsManaged /\ UnderTest /\ ~UnderStatic)
            ~> (AnsweredByTest \/ (pc = "done" /\ result = "Err")))

\* a request handed off once has come back and been answered by handle_test
C10_Witness ==
    redeliveries = 1 /\ selfHandoffs = 1 /\ AnsweredByTest

---------------------------------------------------------------------------
(* Reading a response body as framed events: used by the properties only *)

\* the events of body b in order: OPEN and CLOSE lines and TEXT frames, each TEXT frame
\* read by its length field; what is none of them ends the reading as MALFORMED
RECURSIVE ParseEvents(_)
ParseEvents(b) ==
    IF b = <<>> THEN <<>>
    ELSE IF StartsWith(b, OpenLine)
    THEN <<[type |-> "OPEN"]>> \o ParseEvents(SubSeq(b, Len(OpenLine) + 1, Len(b)))
    ELSE IF StartsWith(b, CloseLine)
    THEN <<[type |-> "CLOSE"]>> \o ParseEvents(SubSeq(b, Len(CloseLine) + 1, Len(b)))
    ELSE IF /\ StartsWith(b, TextTag)
            /\ FirstCR(b) > Len(TextTag) + 1
            /\ IsLowerHex(FrameHex(b))
            /\ Len(b) >= FirstCR(b) + 1 + HexValue(FrameHex(b)) + 2
            /\ b[FirstCR(b) + 1] = "\n"
            /\ SubSeq(b, FirstCR(b) + 2 + HexValue(FrameHex(b)),
                         FirstCR(b) + 3 + HexValue(FrameHex(b))) = CRLF
    THEN <<[type |-> "TEXT",
            content |-> SubSeq(b, FirstCR(b) + 2, FirstCR(b) + 1 + HexValue(FrameHex(b)))]>>
         \o ParseEvents(SubSeq(b, FirstCR(b) + 4 + HexValue(FrameHex(b)), Len(b)))
    ELSE <<[type |-> "MALFORMED"]>>

EventTypes(evs) == [i \in 1..Len(evs) |-> evs[i].type]

CountType(evs, t) == Cardinality({i \in 1..Len(evs) : evs[i].type = t})

\* c:{"type":"keep-alive","message-type":"ping","content":"","timeout":20}
KeepAlive20 ==
    <<"c",":","{">> \o <<"\"","t","y","p","e","\"",":","\"","k","e","e","p","-","a","l","i","v","e","\"",",">>
    \o <<"\"","m","e","s","s","a","g","e","-","t","y","p","e","\"",":","\"","p","i","n","g","\"",",">>
    \o <<"\"","c","o","n","t","e","n","t","\"",":","\"","\"",",">>
    \o <<"\"","t","i","m","e","o","u","t","\"",":","2","0","}">>

\* main answered a request to /test/ws that declares the framing protocol
WsAnswered ==
    /\ pc = "done"
    /\ req.path = WsPath
    /\ "Content-Type" \in DOMAIN req.headers
    /\ req.headers["Content-Type"] = "application/websocket-events"
    /\ \E i \in Sends : events[i].by = "handle_test"

---------------------------------------------------------------------------
(* Properties of the framing test sub-route, under SpecWs *)

\* C6: for a request to /test/ws with Content-Type application/websocket-events whose
\* body starts with OPEN\r\n, whatever follows: the response has status 200 and the
\* header Sec-WebSocket-Extensions with an empty message-prefix, and its body begins with
\* OPEN\r\n, then exactly one subscribe TEXT frame for channel "test", then exactly one
\* keep-alive TEXT frame with timeout 20; a body that does not start with OPEN\r\n gets
\* none of the three parts and no such header.
C6_OpenGetsSubscribeAndKeepAlive ==
    WsAnswered =>
        LET evs == ParseEvents(TheResponse.body) IN
        IF StartsWith(req.body, <<"O","P","E","N","\r","\n">>)
        THEN /\ TheResponse.status = 200
             /\ "Sec-WebSocket-Extensions" \in DOMAIN TheResponse.headers
             /\ TheResponse.headers["Sec-WebSocket-Extensions"] = "grip; message-prefix=\"\""
             /\ Len(evs) >= 3
             /\ evs[1] = [type |-> "OPEN"]
             /\ evs[2] = [type |-> "TEXT", content |-> SubscribeTestPayload]
             /\ evs[3] = [type |-> "TEXT", content |-> KeepAlive20]
             /\ CountType(evs, "OPEN") = 1
             /\ CountType(evs, "TEXT") = 2
             /\ CountType(evs, "MALFORMED") = 0
        ELSE /\ "Sec-WebSocket-Extensions" \notin DOMAIN TheResponse.headers
             /\ CountType(evs, "OPEN") = 0
             /\ CountType(evs, "TEXT") = 0
             /\ CountType(evs, "MALFORMED") = 0

\* an OPEN request with content after the OPEN line has been answered
C6_Witness ==
    /\ WsAnswered
    /\ StartsWith(req.body, OpenLine)
    /\ Len(req.body) > Len(OpenLine)
    /\ TheResponse.status = 200

\* C7: for a request to /test/ws with the protocol's Content-Type, the response body ends
\* with exactly one appended CLOSE\r\n line if and only if the bytes CLOSE occur anywhere
\* in the request body, also off a line start; the OPEN check does not matter to it, so
\* a body that starts with OPEN\r\n and holds CLOSE gets OPEN, subscribe, keep-alive and
\* then CLOSE, CLOSE being last.
C7_CloseAppendedIffCloseOccurs ==
    WsAnswered =>
        LET evs == ParseEvents(TheResponse.body)
            closeOccurs == \E i \in 1..Len(req.body) :
                                /\ i + 4 <= Len(req.body)
                                /\ req.body[i] = "C" /\ req.body[i + 1] = "L"
                                /\ req.body[i + 2] = "O" /\ req.body[i + 3] = "S"
                                /\ req.body[i + 4] = "E"
        IN  /\ closeOccurs <=> EndsWith(TheResponse.body, CloseLine)
            /\ CountType(evs, "CLOSE") = (IF closeOccurs THEN 1 ELSE 0)
            /\ (closeOccurs => evs[Len(evs)].type = "CLOSE")
            /\ ((closeOccurs /\ StartsWith(req.body, OpenLine)) =>
                    EventTypes(evs) = <<"OPEN", "TEXT", "TEXT", "CLOSE">>)

\* an OPEN request that holds CLOSE off a line start has been answered
C7_Witness ==
    /\ WsAnswered
    /\ req.body = OpenLine \o <<"x">> \o CloseToken
    /\ EndsWith(TheResponse.body, CloseLine)

====
